---- MODULE Spec2Model ----
(***************************************************************************)
(* Model of lutris_bulk_adder.py: the directory scan, the derivation of    *)
(* the game name and slug from a path, and main()'s commit loop against    *)
(* the Lutris games table and the directory of .yml documents.             *)
(*                                                                         *)
(* A string is a tuple of one-character strings, so that the conversions   *)
(* of the source (lower(), endswith(), re.sub(), replace(), strip()) are   *)
(* computed character by character.                                        *)
(***************************************************************************)
EXTENDS Integers, Sequences, FiniteSets, TLC

(***************************************************************************)
(* Characters and the string primitives of Python used by the source.     *)
(***************************************************************************)
UPPER == << "A", "B", "C", "D", "E", "F", "G", "H", "I", "J", "K", "L", "M", "N", "O", "P", "Q", "R", "S", "T", "U", "V", "W", "X", "Y", "Z" >>
LOWER == << "a", "b", "c", "d", "e", "f", "g", "h", "i", "j", "k", "l", "m", "n", "o", "p", "q", "r", "s", "t", "u", "v", "w", "x", "y", "z" >>
DIGITS == { "0", "1", "2", "3", "4", "5", "6", "7", "8", "9" }
\* the characters re's \s matches among those the model's strings can hold
WHITESPACE == {" ", "\t", "\n", "\r"}

\* str.lower() on one character
LowerChar(c) ==
    IF \E i \in 1..Len(UPPER) : UPPER[i] = c
    THEN LOWER[CHOOSE i \in 1..Len(UPPER) : UPPER[i] = c]
    ELSE c

\* str.lower()
Lower(s) == [i \in 1..Len(s) |-> LowerChar(s[i])]

\* the character class [0-9A-Za-z']
IsWordChar(c) ==
    \/ c \in DIGITS
    \/ \E i \in 1..Len(UPPER) : c = UPPER[i] \/ c = LOWER[i]
    \/ c = "'"

\* str.endswith(t)
EndsWith(s, t) ==
    /\ Len(t) <= Len(s)
    /\ SubSeq(s, Len(s) - Len(t) + 1, Len(s)) = t

\* str.startswith(t)
StartsWith(s, t) ==
    /\ Len(t) <= Len(s)
    /\ SubSeq(s, 1, Len(t)) = t

\* positions of character c in s
Positions(s, c) == {i \in 1..Len(s) : s[i] = c}

Max(S) == CHOOSE x \in S : \A y \in S : y <= x
Min(S) == CHOOSE x \in S : \A y \in S : x <= y

\* str.strip(c) for a single character c
StripChar(s, c) ==
    LET keep == {i \in 1..Len(s) : s[i] # c}
    IN  IF keep = {} THEN <<>> ELSE SubSeq(s, Min(keep), Max(keep))

\* str.replace(tok, ""): the non-overlapping occurrences of tok, left to
\* right, are removed (an empty tok changes nothing)
RECURSIVE RemoveAll(_, _)
RemoveAll(s, tok) ==
    IF Len(tok) = 0 \/ Len(s) < Len(tok) THEN s
    ELSE IF SubSeq(s, 1, Len(tok)) = tok
         THEN RemoveAll(SubSeq(s, Len(tok) + 1, Len(s)), tok)
         ELSE <<s[1]>> \o RemoveAll(Tail(s), tok)

\* re.sub(r"\s+", rep, s): every maximal run of whitespace becomes rep
RECURSIVE SubWhitespace(_, _)
SubWhitespace(s, rep) ==
    IF s = <<>> THEN <<>>
    ELSE IF s[1] \in WHITESPACE
         THEN LET rest == Tail(s)
                  n == IF \A i \in 1..Len(rest) : rest[i] \in WHITESPACE
                       THEN Len(rest)
                       ELSE Min({i \in 1..Len(rest) : rest[i] \notin WHITESPACE}) - 1
              IN  <<rep>> \o SubWhitespace(SubSeq(rest, n + 1, Len(rest)), rep)
         ELSE <<s[1]>> \o SubWhitespace(Tail(s), rep)

\* re.sub(r"[^0-9A-Za-z']", " ", s)
SubNonWord(s) == [i \in 1..Len(s) |-> IF IsWordChar(s[i]) THEN s[i] ELSE " "]

\* str.replace("'", "")
DropApostrophes(s) == SelectSeq(s, LAMBDA c : c # "'")

\* re.sub(r"\..*", "", s): everything from the first dot on is removed
StripExtension(s) ==
    IF Positions(s, ".") = {} THEN s
    ELSE SubSeq(s, 1, Min(Positions(s, ".")) - 1)

\* s.split(os.extsep)[-1]: the part after the last dot, s itself without one
LastExtPart(s) ==
    IF Positions(s, ".") = {} THEN s
    ELSE SubSeq(s, Max(Positions(s, ".")) + 1, Len(s))

\* os.path.join(a, b) for a relative b
PathJoin(a, b) == IF a # <<>> /\ a[Len(a)] = "/" THEN a \o b ELSE a \o <<"/">> \o b

\* os.path.basename(p)
Basename(p) ==
    IF Positions(p, "/") = {} THEN p
    ELSE SubSeq(p, Max(Positions(p, "/")) + 1, Len(p))

\* os.path.split(p)[0]: the head, without its trailing slashes unless it is
\* the root
Dirname(p) ==
    IF Positions(p, "/") = {} THEN <<>>
    ELSE LET head == SubSeq(p, 1, Max(Positions(p, "/")))
             keep == {i \in 1..Len(head) : head[i] # "/"}
         IN  IF keep = {} THEN head ELSE SubSeq(head, 1, Max(keep))

(***************************************************************************)
(* The tables of the source.                                               *)
(***************************************************************************)
DEFAULT_ROM_FILE_EXTS ==
    { <<"i","s","o">>,
      <<"z","i","p">>,
      <<"s","f","c">>,
      <<"g","b","a">>,
      <<"g","b","c">>,
      <<"g","b">>,
      <<"m","d">>,
      <<"n","6","4">>,
      <<"n","e","s">>,
      <<"3","2","x">>,
      <<"g","g">>,
      <<"s","m","s">>,
      <<"b","i","n">>,
      <<"e","x","e">> }

IGNORE_BINARIES ==
    { <<"f","f","m","p","e","g">>,
      <<"z","s","y","n","c","m","a","k","e">>,
      <<"z","s","y","n","c">>,
      <<"u","n","i","t","y","c","r","a","s","h","h","a","n","d","l","e","r","6","4">>,
      <<"u","n","i","t","y","c","r","a","s","h","h","a","n","d","l","e","r","3","2">>,
      <<"p","y","t","h","o","n">>,
      <<"p","y","t","h","o","n","w">>,
      <<"n","o","t","i","f","i","c","a","t","i","o","n","_","h","e","l","p","e","r">>,
      <<"d","x","w","e","b","s","e","t","u","p">>,
      <<"j","j","s">>,
      <<"q","g","e","n">>,
      <<"p","a","c","k","2","0","0">>,
      <<"j","a","v","a","c","p","l">>,
      <<"j","a","v","a",".","e","x","e">>,
      <<"u","n","i","n","s","0","0","0">>,
      <<"u","e","4","p","r","e","r","e","q","s","e","t","u","p","_","x","6","4">>,
      <<"u","n","i","n","s","t","a","l","l","e","r">>,
      <<"c","o","n","f","i","g">>,
      <<"u","n","p","a","c","k","2","0","0">>,
      <<"r","e","s","e","t","c","o","n","f","i","g">>,
      <<"c","l","a","u","n","c","h","u","s">>,
      <<"s","e","r","v","e","r","t","o","o","l">>,
      <<"o","r","b","d">>,
      <<"n","w","j","c">>,
      <<"p","o","l","i","c","y","t","o","o","l">>,
      <<"r","m","i","r","e","g","i","s","t","r","y">>,
      <<"c","w","e","b","p">>,
      <<"u","e","p","r","e","r","e","q","s","e","t","u","p","_","x","6","4">>,
      <<"t","n","a","m","e","s","e","r","v">>,
      <<"l","a","u","n","c","h","e","r">>,
      <<"s","u","b","p","r","o","c","e","s","s">>,
      <<"k","t","a","b">>,
      <<"k","l","i","s","t">>,
      <<"k","i","n","i","t">>,
      <<"j","p","2","l","a","u","n","c","h","e","r">>,
      <<"j","a","b","s","w","i","t","c","h">>,
      <<"p","y","s","e","m","v","e","r">>,
      <<"p","a","y","l","o","a","d">>,
      <<"r","m","i","d">>,
      <<"j","a","v","a">>,
      <<"v","c","r","e","d","i","s","t","-","x","6","4">>,
      <<"v","c","r","e","d","i","s","t","-","x","8","6">>,
      <<"v","c","r","e","d","i","s","t","_","x","6","4">>,
      <<"v","c","r","e","d","i","s","t","_","x","8","6">>,
      <<"j","a","v","a","w">>,
      <<"j","a","v","a","w","s">>,
      <<"o","p","e","n","s","a","v","e","f","o","l","d","e","r">> }

bad ==
    { <<"f","f","m","p","e","g">>,
      <<"z","s","y","n","c","m","a","k","e">>,
      <<"z","s","y","n","c">>,
      <<"U","n","i","t","y","C","r","a","s","h","H","a","n","d","l","e","r","6","4">>,
      <<"U","n","i","t","y","C","r","a","s","h","H","a","n","d","l","e","r","3","2">>,
      <<"p","y","t","h","o","n">>,
      <<"p","y","t","h","o","n","w">>,
      <<"n","o","t","i","f","i","c","a","t","i","o","n","_","h","e","l","p","e","r">>,
      <<"d","x","w","e","b","s","e","t","u","p">>,
      <<"j","j","s">>,
      <<"j","a","v","a","c","p","l">>,
      <<"j","a","v","a","-","r","m","i">>,
      <<"u","n","i","n","s","0","0","0">>,
      <<"U","n","i","n","s","t","a","l","l","e","r">>,
      <<"C","o","n","f","i","g">>,
      <<"u","n","p","a","c","k","2","0","0">>,
      <<"R","e","s","e","t","C","o","n","f","i","g">>,
      <<"C","L","a","u","n","c","h","U","S">>,
      <<"s","e","r","v","e","r","t","o","o","l">>,
      <<"o","r","b","d">>,
      <<"n","w","j","c">>,
      <<"p","o","l","i","c","y","t","o","o","l">>,
      <<"r","m","i","r","e","g","i","s","t","r","y">>,
      <<"c","w","e","b","p">>,
      <<"U","E","P","r","e","r","e","q","S","e","t","u","p","_","x","6","4">>,
      <<"t","n","a","m","e","s","e","r","v">>,
      <<"L","a","u","n","c","h","e","r">>,
      <<"s","u","b","p","r","o","c","e","s","s">>,
      <<"k","t","a","b">>,
      <<"k","l","i","s","t">>,
      <<"k","i","n","i","t">>,
      <<"j","p","2","l","a","u","n","c","h","e","r">>,
      <<"j","a","b","s","w","i","t","c","h">>,
      <<"p","y","s","e","m","v","e","r">>,
      <<"p","a","y","l","o","a","d">>,
      <<"r","m","i","d">>,
      <<"j","a","v","a">>,
      <<"j","a","v","a","w">>,
      <<"j","a","v","a","w","s">>,
      <<"O","p","e","n","S","a","v","e","F","o","l","d","e","r">> }


\* the literal main() compares the game name with (line 447)
GAME_PLACEHOLDER == <<"G","a","m","e">>

\* os.extsep + "exe", the suffix of the scanner's filename filter (line 352)
DOT_EXE == <<".","e","x","e">>

\* 'exe', the one file type main() sets for Windows (line 427)
DOT_EXE_TYPE == <<"e","x","e">>

\* the suffix of a configuration document's file name (line 459)
DOT_YML == <<".","y","m","l">>

HEXDIGITS == << "0", "1", "2", "3", "4", "5", "6", "7", "8", "9", "a", "b", "c", "d", "e", "f" >>

(***************************************************************************)
(* The inputs the model draws from: a scan root with two subdirectories,   *)
(* the files that may lie in them, and the command lines of a run.         *)
(***************************************************************************)
ROOT == <<"/","g">>
DIR_FOO == PathJoin(ROOT, <<"F","o","o">>)
DIR_BAR == PathJoin(ROOT, <<"B","a","r">>)
AllDirs == {ROOT, DIR_FOO, DIR_BAR}

F_FOO_GAME == PathJoin(DIR_FOO, <<"G","a","m","e",".","e","x","e">>)
F_BAR_GAME == PathJoin(DIR_BAR, <<"G","a","m","e",".","e","x","e">>)
F_FOO_LOWGAME == PathJoin(DIR_FOO, <<"g","a","m","e",".","e","x","e">>)
F_FOO_ROM == PathJoin(DIR_FOO, <<"M","y"," ","R","o","m","'","s"," ","(","U",")",".","n","e","s">>)
F_BAR_RMI == PathJoin(DIR_BAR, <<"j","a","v","a","-","r","m","i",".","e","x","e">>)
F_BAR_JAVA == PathJoin(DIR_BAR, <<"j","a","v","a",".","e","x","e">>)
F_ROOT_README == PathJoin(ROOT, <<"r","e","a","d","m","e",".","t","x","t">>)

\* every path a tree of the model can hold, in a fixed order
PathSeq ==
    << F_FOO_GAME, F_BAR_GAME, F_FOO_LOWGAME, F_FOO_ROM, F_BAR_RMI, F_BAR_JAVA,
       F_ROOT_README >>
FileUniverse == {PathSeq[i] : i \in 1..Len(PathSeq)}

STRIP_TOKEN == <<" ","(","U",")">>

\* the bounds of the model
MaxFiles == 2
MaxRows == 1
MaxUnreadable == 1

\* the command lines: platform, runner, strip_filename and file_types of args
ArgChoices ==
    { [platform |-> "Windows", runner |-> "wine", strip_filename |-> <<>>,
       file_types |-> DEFAULT_ROM_FILE_EXTS],
      [platform |-> "Nintendo NES", runner |-> "mednafen",
       strip_filename |-> <<STRIP_TOKEN>>, file_types |-> DEFAULT_ROM_FILE_EXTS] }

(***************************************************************************)
(* The pure functions of main() and scan_for_supported_files().            *)
(***************************************************************************)
\* the length of hashlib.md5(...).hexdigest()
MD5_HEX_LEN == 32

\* hashlib.md5(game_file.encode("utf-8")).hexdigest(): a digest of fixed
\* length that is injective on the paths of the model (the path's rank in
\* PathSeq, written in base 16)
Md5Hex(path) ==
    LET n == CHOOSE i \in 1..Len(PathSeq) : PathSeq[i] = path
    IN  [i \in 1..MD5_HEX_LEN |->
           IF i = MD5_HEX_LEN THEN HEXDIGITS[(n % 16) + 1]
           ELSE IF i = MD5_HEX_LEN - 1 THEN HEXDIGITS[((n \div 16) % 16) + 1]
           ELSE "0"]

\* for token in args.strip_filename: game = game.replace(token, "")
RECURSIVE StripTokens(_, _)
StripTokens(game, tokens) ==
    IF tokens = <<>> THEN game
    ELSE StripTokens(RemoveAll(game, Head(tokens)), Tail(tokens))

\* the test that substitutes the parent directory's name for the game name
IsPlaceholder(game) == game = GAME_PLACEHOLDER

\* the name taken from the file's own name: extension stripped, tokens
\* stripped, whitespace collapsed
OwnName(game_file, a) ==
    LET base == StripExtension(Basename(game_file))
    IN  StripChar(SubWhitespace(StripTokens(base, a.strip_filename), " "), " ")

\* alt_name: the name of the directory the file lies in
AltName(game_file) == Basename(Dirname(game_file))

\* the game name of a file: for Windows the placeholder is replaced by the
\* directory's name
GameName(game_file, a) ==
    IF a.platform = "Windows" /\ IsPlaceholder(OwnName(game_file, a))
    THEN AltName(game_file)
    ELSE OwnName(game_file, a)

\* the slug of a name before the hash is appended
Slugify(game) ==
    Lower(StripChar(SubWhitespace(DropApostrophes(SubNonWord(game)), "-"), "-"))

\* mutant: the slug is the name alone, without the hash of the path
ConfigFileNoHash(game_file, a) == Slugify(GameName(game_file, a))

\* '{slug}-{hash}': the slug of the row and the stem of its document
ConfigFile(game_file, a) ==
    Slugify(GameName(game_file, a)) \o <<"-">> \o Md5Hex(game_file)

\* the file name of the document of a slug in lutris_yml_dir
YmlName(config_file) == config_file \o DOT_YML

\* Windows games whose name is in bad are passed over
IsBad(game_file, a) == a.platform = "Windows" /\ GameName(game_file, a) \in bad

\* the document written for a game (args.game_options is not given)
Config(game_file, a) ==
    IF a.platform = "Windows"
    THEN [runner |-> a.runner,
          game |-> [exe |-> game_file, working_dir |-> Dirname(game_file)]]
    ELSE [runner |-> a.runner, game |-> [main_file |-> game_file]]

\* the row inserted for a game (the columns main() sets to a value that
\* varies; installed_at, the clock's reading, is left out)
Values(game_file, a, id) ==
    [id |-> id,
     name |-> GameName(game_file, a),
     slug |-> ConfigFile(game_file, a),
     platform |-> a.platform,
     runner |-> a.runner,
     configpath |-> ConfigFile(game_file, a)]

\* the scanner's filename filter: the name ends with an ignored stem + ".exe"
IsIgnoredName(name) ==
    \E tmp \in IGNORE_BINARIES : EndsWith(Lower(name), tmp \o DOT_EXE)

\* the scanner's extension test
HasType(name, types) == Lower(LastExtPart(name)) \in types

\* a regular file is added to the result
PassesFilter(name, types) == ~IsIgnoredName(name) /\ HasType(name, types)

\* the verdict of PassesFilter on every file the model can hold, computed
\* once for each list of types
Wanted ==
    [types \in {a.file_types : a \in ArgChoices} |->
        {f \in FileUniverse : PassesFilter(Basename(f), types)}]

\* the files of tree directly in directory d
FilesIn(t, d) == {f \in t : Dirname(f) = d}

\* the subdirectories of directory d
SubDirs(d) == {x \in AllDirs : x # d /\ Dirname(x) = d}

\* scan_for_supported_files(fdir, types): the files found, or raised when
\* os.scandir() fails on fdir or on a directory below it (no handler here
\* or in main() catches the error)
RECURSIVE ScanForSupportedFiles(_, _, _, _)
ScanForSupportedFiles(t, unread, fdir, types) ==
    IF fdir \in unread THEN [raised |-> TRUE, files |-> {}]
    ELSE LET here == FilesIn(t, fdir) \cap Wanted[types]
             below == {ScanForSupportedFiles(t, unread, d, types) : d \in SubDirs(fdir)}
         IN  IF \E r \in below : r.raised
             THEN [raised |-> TRUE, files |-> {}]
             ELSE [raised |-> FALSE, files |-> here \cup UNION {r.files : r \in below}]

\* main()'s local file_types: ['exe'] for Windows.  It is assigned and not
\* read again: the scan is passed args.file_types
FileTypes(a) == IF a.platform = "Windows" THEN {DOT_EXE_TYPE} ELSE a.file_types

\* mutant: the first id is 1 whatever the table holds
FirstGameIdOne(rows) == 1

\* select max(id) from games, None read as 0, plus one
FirstGameId(rows) ==
    (IF rows = {} THEN 0 ELSE Max({r.id : r \in rows})) + 1

\* mutant: game_id is not advanced
NextGameIdStuck(id) == id

\* game_id += 1
NextGameId(id) == id + 1

\* mutant: the slug is never found
HaveNever(rows, slug) == 0

\* mutant: the slug is always found
HaveAlways(rows, slug) == 1

\* SELECT count(*) FROM games WHERE slug = ?
Have(rows, slug) == Cardinality({r \in rows : r.slug = slug})

\* mutant: the document is not written
WriteYmlSkipped(docs, name, config) == docs

\* open(config_file_path, 'w') and yaml.dump: the document is created or
\* replaced
WriteYml(docs, name, config) == (name :> config) @@ docs

\* mutant: the branch that writes is taken whatever args.no_write is
OnlyPrintsNever(nw) == FALSE

\* args.no_write selects the branch that only prints
OnlyPrints(nw) == nw

(***************************************************************************)
(* FileIdentifier, the classifier.                                         *)
(***************************************************************************)
\* the type descriptors never taken for a game
IGNORE_TYPES ==
    { <<"7","-","z","i","p"," ","a","r","c","h","i","v","e"," ","d","a","t","a">>,
      <<"A","l","g","o","l"," ","6","8"," ","s","o","u","r","c","e">>,
      <<"A","p","p","l","e","s","o","f","t"," ","B","A","S","I","C"," ","p","r","o","g","r","a","m"," ","d","a","t","a">>,
      <<"c","o","l","o","r"," ","p","r","o","f","i","l","e"," ","2",".","0">>,
      <<"C","r","u","n","c","h"," ","c","o","m","p","r","e","s","s","e","d"," ","t","e","x","t","u","r","e">>,
      <<"D","O","S"," ","b","a","t","c","h"," ","f","i","l","e">>,
      <<"D","O","S"," ","e","x","e","c","u","t","a","b","l","e"," ","(","b","l","o","c","k"," ","d","e","v","i","c","e"," ","d","r","i","v","e","r",")">>,
      <<"D","O","S","/","M","B","R"," ","b","o","o","t"," ","s","e","c","t","o","r">>,
      <<"e","x","e","c","u","t","a","b","l","e">>,
      <<"F","L","A","C"," ","a","u","d","i","o"," ","b","i","t","s","t","r","e","a","m"," ","d","a","t","a">>,
      <<"I","F","F"," ","d","a","t","a">>,
      <<"I","n","n","o","S","e","t","u","p"," ","L","o","g">>,
      <<"I","n","t","e","l"," ","i","a","6","4"," ","C","O","F","F"," ","o","b","j","e","c","t"," ","f","i","l","e">>,
      <<"I","S","O"," ","M","e","d","i","a">>,
      <<"I","S","O","-","8","8","5","9"," ","t","e","x","t"," ">>,
      <<"I","S","O","-","8","8","5","9"," ","t","e","x","t">>,
      <<"J","a","v","a"," ","a","r","c","h","i","v","e"," ","d","a","t","a"," ","(","J","A","R",")">>,
      <<"J","a","v","a"," ","K","e","y","S","t","o","r","e">>,
      <<"M","a","c","h","-","O"," ","6","4","-","b","i","t"," ","x","8","6","_","6","4"," ","b","u","n","d","l","e">>,
      <<"M","a","c","h","-","O"," ","6","4","-","b","i","t"," ","x","8","6","_","6","4"," ","d","y","n","a","m","i","c","a","l","l","y"," ","l","i","n","k","e","d"," ","s","h","a","r","e","d"," ","l","i","b","r","a","r","y">>,
      <<"M","i","c","r","o","s","o","f","t"," ","c","o","l","o","r"," ","p","r","o","f","i","l","e"," ","2",".","1">>,
      <<"M","P","E","G"," ","s","e","q","u","e","n","c","e">>,
      <<"M","S"," ","W","i","n","d","o","w","s"," ","9","5"," ","I","n","t","e","r","n","e","t"," ","s","h","o","r","t","c","u","t"," ","t","e","x","t"," ","(","U","R","L","=","<","h","t","t","p",":","/","/","w","w","w",".","r","a","p","a","p","u","r","u",".","c","o","m","/",">",")">>,
      <<"M","S"," ","W","i","n","d","o","w","s"," ","9","5"," ","I","n","t","e","r","n","e","t"," ","s","h","o","r","t","c","u","t">>,
      <<"M","S"," ","W","i","n","d","o","w","s"," ","i","c","o","n"," ","r","e","s","o","u","r","c","e"," ","-"," ","1","1"," ","i","c","o","n","s">>,
      <<"M","S"," ","W","i","n","d","o","w","s"," ","i","c","o","n"," ","r","e","s","o","u","r","c","e">>,
      <<"N","e","k","o","V","M"," ","b","y","t","e","c","o","d","e">>,
      <<"O","g","g"," ","d","a","t","a">>,
      <<"O","p","e","n","P","G","P"," ","P","u","b","l","i","c"," ","K","e","y">>,
      <<"O","p","e","n","T","y","p","e"," ","f","o","n","t"," ","d","a","t","a"," ","/","r","u","n","/","m","e","d","i","a","/","m","m","c","b","l","k","0","p","1","/","d","e","c","k","_","s","y","n","c","/","H","G","/","G","e","n","d","e","r","B","e","n","d","e","r","/","r","e","n","p","y","/","c","o","m","m","o","n","/","f","a","5",".","o","t","f">>,
      <<"O","p","e","n","T","y","p","e"," ","f","o","n","t"," ","d","a","t","a">>,
      <<"P","a","i","n","t",".","N","E","T"," ","i","m","a","g","e"," ","d","a","t","a">>,
      <<"P","C"," ","b","i","t","m","a","p"," ">>,
      <<"P","C"," ","b","i","t","m","a","p">>,
      <<"P","D","F"," ","d","o","c","u","m","e","n","t">>,
      <<"p","y","t","h","o","n"," ","3",".","8"," ","b","y","t","e","-","c","o","m","p","i","l","e","d">>,
      <<"r","a","w"," ","G","3"," ","(","G","r","o","u","p"," ","3",")"," ","F","A","X">>,
      <<"R","I","F","F"," ","(","b","i","g","-","e","n","d","i","a","n",")"," ","d","a","t","a">>,
      <<"R","I","F","F"," ","(","l","i","t","t","l","e","-","e","n","d","i","a","n",")"," ","d","a","t","a">>,
      <<"S","p","e","c","t","r","u","m"," ",".","T","A","P"," ","d","a","t","a">>,
      <<"S","t","a","n","d","a","r","d"," ","M","I","D","I"," ","d","a","t","a"," ">>,
      <<"S","t","a","n","d","a","r","d"," ","M","I","D","I"," ","d","a","t","a">>,
      <<"S","u","n"," ","K","C","M","S"," ","c","o","l","o","r"," ","p","r","o","f","i","l","e"," ","2",".","0">>,
      <<"S","y","s","E","x"," ","F","i","l","e">>,
      <<"T","a","r","g","a"," ","i","m","a","g","e"," ","d","a","t","a">>,
      <<"T","T","C","o","m","p"," ","a","r","c","h","i","v","e"," ","d","a","t","a">>,
      <<"U","n","i","c","o","d","e"," ","t","e","x","t">>,
      <<"W","i","n","d","o","w","s"," ","d","e","s","k","t","o","p",".","i","n","i">>,
      <<"A","d","o","b","e"," ","P","h","o","t","o","s","h","o","p"," ","I","m","a","g","e">>,
      <<"A","p","p","l","e"," ","D","e","s","k","t","o","p"," ","S","e","r","v","i","c","e","s"," ","S","t","o","r","e">>,
      <<"A","S","C","I","I"," ","t","e","x","t">>,
      <<"A","u","d","i","o"," ","f","i","l","e"," ","w","i","t","h"," ","I","D","3"," ","v","e","r","s","i","o","n"," ">>,
      <<"C"," ","s","o","u","r","c","e">>,
      <<"C"," ","s","o","u","r","c","e",","," ","A","S","C","I","I"," ","t","e","x","t">>,
      <<"C","+","+"," ","s","o","u","r","c","e">>,
      <<"C","S","V"," ","t","e","x","t">>,
      <<"d","a","t","a">>,
      <<"D","I","Y","-","T","h","e","r","m","o","c","a","m">>,
      <<"E","L","F"," ","3","2","-","b","i","t"," ","L","S","B"," ","s","h","a","r","e","d"," ","o","b","j","e","c","t">>,
      <<"E","L","F"," ","6","4","-","b","i","t"," ","L","S","B"," ","s","h","a","r","e","d"," ","o","b","j","e","c","t">>,
      <<"e","m","p","t","y">>,
      <<"e","x","p","o","r","t","e","d"," ","S","G","M","L"," ","d","o","c","u","m","e","n","t">>,
      <<"G","e","n","e","r","i","c"," ","I","N","I","t","i","a","l","i","z","a","t","i","o","n"," ","c","o","n","f","i","g","u","r","a","t","i","o","n">>,
      <<"G","I","F"," ","i","m","a","g","e"," ","d","a","t","a">>,
      <<"G","I","M","P"," ","X","C","F"," ","i","m","a","g","e"," ","d","a","t","a">>,
      <<"H","T","M","L"," ","d","o","c","u","m","e","n","t">>,
      <<"J","P","E","G"," ","i","m","a","g","e"," ","d","a","t","a">>,
      <<"J","S","O","N"," ","d","a","t","a">>,
      <<"M","P","E","G"," ","A","D","T","S">>,
      <<"M","S"," ","W","i","n","d","o","w","s"," ","3",".","1"," ","h","e","l","p">>,
      <<"M","S"," ","W","i","n","d","o","w","s"," ","h","e","l","p"," ","f","i","l","e"," ","C","o","n","t","e","n","t">>,
      <<"M","S"," ","W","i","n","d","o","w","s"," ","s","h","o","r","t","c","u","t">>,
      <<"N","o","n","-","I","S","O"," ","e","x","t","e","n","d","e","d","-","A","S","C","I","I"," ","t","e","x","t">>,
      <<"O","g","g"," ","d","a","t","a",","," ","V","o","r","b","i","s"," ","a","u","d","i","o">>,
      <<"P","D","F"," ","d","o","c","u","m","e","n","t"," ">>,
      <<"P","E","3","2"," ","e","x","e","c","u","t","a","b","l","e"," ","(","D","L","L",")">>,
      <<"P","E","3","2","+"," ","e","x","e","c","u","t","a","b","l","e"," ","(","D","L","L",")">>,
      <<"P","E","M"," ","c","e","r","t","i","f","i","c","a","t","e">>,
      <<"P","E","M"," ","R","S","A"," ","p","r","i","v","a","t","e"," ","k","e","y">>,
      <<"P","N","G"," ","i","m","a","g","e"," ","d","a","t","a">>,
      <<"P","O","S","I","X"," ","s","h","e","l","l"," ","s","c","r","i","p","t">>,
      <<"P","O","S","I","X"," ","t","a","r"," ","a","r","c","h","i","v","e">>,
      <<"p","y","t","h","o","n"," ","2",".","7"," ","b","y","t","e","-","c","o","m","p","i","l","e","d">>,
      <<"R","A","R"," ","a","r","c","h","i","v","e"," ","d","a","t","a">>,
      <<"R","u","b","y"," ","s","c","r","i","p","t">>,
      <<"S","V","G"," ","S","c","a","l","a","b","l","e"," ","V","e","c","t","o","r"," ","G","r","a","p","h","i","c","s"," ","i","m","a","g","e">>,
      <<"T","r","u","e","T","y","p","e"," ","F","o","n","t"," ","d","a","t","a",",">>,
      <<"W","e","b"," ","O","p","e","n"," ","F","o","n","t"," ","F","o","r","m","a","t">>,
      <<"W","e","b","A","s","s","e","m","b","l","y">>,
      <<"W","e","b","M">>,
      <<"W","i","n","d","o","w","s"," ","W","I","N",".","I","N","I">>,
      <<"X","M","L"," ","1",".","0"," ","d","o","c","u","m","e","n","t">>,
      <<"Z","i","p"," ","a","r","c","h","i","v","e"," ","d","a","t","a">>,
      <<"z","l","i","b"," ","c","o","m","p","r","e","s","s","e","d"," ","d","a","t","a">>,
      <<"P","y","t","h","o","n"," ","s","c","r","i","p","t",","," ","A","S","C","I","I"," ","t","e","x","t">>,
      <<"P","y","t","h","o","n"," ","s","c","r","i","p","t"," ","t","e","x","t"," ","e","x","e","c","u","t","a","b","l","e"," ","P","y","t","h","o","n"," ","s","c","r","i","p","t">>,
      <<"P","y","t","h","o","n"," ","s","c","r","i","p","t",","," ","U","n","i","c","o","d","e"," ","t","e","x","t">>,
      <<"M","a","c","h","-","O"," ","6","4","-","b","i","t"," ","x","8","6","_","6","4"," ","e","x","e","c","u","t","a","b","l","e">>,
      <<"M","a","c","h","-","O"," ","u","n","i","v","e","r","s","a","l"," ","b","i","n","a","r","y">> }

\* the type descriptors of native binaries
LINUX_EXECUTABLES ==
    { <<"E","L","F"," ","3","2","-","b","i","t"," ","L","S","B">>,
      <<"E","L","F"," ","6","4","-","b","i","t"," ","L","S","B">> }

\* the type descriptors of Windows binaries
WINDOWS_EXECUTABLES ==
    { <<"P","E","3","2"," ","e","x","e","c","u","t","a","b","l","e">>,
      <<"P","E","3","2","+"," ","e","x","e","c","u","t","a","b","l","e">> }

\* None, for the platform and the runner of a file that is no game
NONE == "None"

\* self._mime starts with an entry of IGNORE_TYPES
IsIgnoredType(mime) == \E tmp \in IGNORE_TYPES : StartsWith(mime, tmp)

\* self._path.lower() ends with an entry of IGNORE_BINARIES
IsIgnoredBinary(path) == \E tmp \in IGNORE_BINARIES : EndsWith(Lower(path), tmp)

\* self._path.lower() ends with an entry of IGNORE_BINARIES and ".exe"
IsIgnoredBinaryExe(path) ==
    \E tmp \in IGNORE_BINARIES : EndsWith(Lower(path), tmp \o DOT_EXE)

\* self._mime starts with an entry of LINUX_EXECUTABLES
IsLinuxExecutable(mime) == \E tmp \in LINUX_EXECUTABLES : StartsWith(mime, tmp)

\* self._mime starts with an entry of WINDOWS_EXECUTABLES
IsWindowsExecutable(mime) == \E tmp \in WINDOWS_EXECUTABLES : StartsWith(mime, tmp)

\* mutant: the platform rules come before the ignore rules
FileIdentifierPlatformFirst(path, mime) ==
    IF IsLinuxExecutable(mime) THEN [platform |-> "Linux", runner |-> "linux"]
    ELSE IF IsWindowsExecutable(mime) THEN [platform |-> "Windows", runner |-> "wine"]
    ELSE IF IsIgnoredType(mime) THEN [platform |-> NONE, runner |-> NONE]
    ELSE IF IsIgnoredBinary(path) THEN [platform |-> NONE, runner |-> NONE]
    ELSE IF IsIgnoredBinaryExe(path) THEN [platform |-> NONE, runner |-> NONE]
    ELSE [platform |-> "Unknown", runner |-> "unknown"]

\* FileIdentifier(path).get_platform_runner(), for the type descriptor
\* magic.from_file(path) returned
FileIdentifier(path, mime) ==
    IF IsIgnoredType(mime) THEN [platform |-> NONE, runner |-> NONE]
    ELSE IF IsIgnoredBinary(path) THEN [platform |-> NONE, runner |-> NONE]
    ELSE IF IsIgnoredBinaryExe(path) THEN [platform |-> NONE, runner |-> NONE]
    ELSE IF IsLinuxExecutable(mime) THEN [platform |-> "Linux", runner |-> "linux"]
    ELSE IF IsWindowsExecutable(mime) THEN [platform |-> "Windows", runner |-> "wine"]
    ELSE [platform |-> "Unknown", runner |-> "unknown"]

\* the type descriptors the classifier is given
MIME_PE32_GUI ==
    <<"P","E","3","2"," ","e","x","e","c","u","t","a","b","l","e"," ","(","G","U","I",")"," ","I","n","t","e","l"," ","8","0","3","8","6">>
MIME_PE32P_CONSOLE ==
    <<"P","E","3","2","+"," ","e","x","e","c","u","t","a","b","l","e"," ","(","c","o","n","s","o","l","e",")"," ","x","8","6","-","6","4">>
MIME_PE32_DLL ==
    <<"P","E","3","2"," ","e","x","e","c","u","t","a","b","l","e"," ","(","D","L","L",")"," ","(","G","U","I",")"," ","I","n","t","e","l"," ","8","0","3","8","6">>
MIME_ELF64_EXEC ==
    <<"E","L","F"," ","6","4","-","b","i","t"," ","L","S","B"," ","e","x","e","c","u","t","a","b","l","e",","," ","x","8","6","-","6","4">>
MIME_ELF64_SO ==
    <<"E","L","F"," ","6","4","-","b","i","t"," ","L","S","B"," ","s","h","a","r","e","d"," ","o","b","j","e","c","t",","," ","x","8","6","-","6","4">>
MIME_ELF32_EXEC ==
    <<"E","L","F"," ","3","2","-","b","i","t"," ","L","S","B"," ","e","x","e","c","u","t","a","b","l","e",","," ","I","n","t","e","l"," ","8","0","3","8","6">>
MIME_ASCII ==
    <<"A","S","C","I","I"," ","t","e","x","t">>
MIME_DOS_COM ==
    <<"D","O","S"," ","e","x","e","c","u","t","a","b","l","e"," ","(","C","O","M",")">>
Descriptors ==
    { MIME_PE32_GUI,
      MIME_PE32P_CONSOLE,
      MIME_PE32_DLL,
      MIME_ELF64_EXEC,
      MIME_ELF64_SO,
      MIME_ELF32_EXEC,
      MIME_ASCII,
      MIME_DOS_COM }

\* the files the classifier and the scanner's filter are given
I_GAME == PathJoin(DIR_FOO, <<"G","a","m","e",".","e","x","e">>)
I_JAVA_EXE == PathJoin(DIR_BAR, <<"j","a","v","a",".","e","x","e">>)
I_JAVA_UPPER == PathJoin(DIR_BAR, <<"J","A","V","A",".","E","X","E">>)
I_PYTHON == PathJoin(DIR_BAR, <<"p","y","t","h","o","n">>)
I_GAMELAUNCHER == PathJoin(DIR_FOO, <<"G","a","m","e","L","a","u","n","c","h","e","r",".","e","x","e">>)
I_MYJAVA == PathJoin(DIR_FOO, <<"m","y","j","a","v","a">>)
I_START == PathJoin(DIR_FOO, <<"s","t","a","r","t">>)
I_X86_64 == PathJoin(DIR_FOO, <<"G","a","m","e",".","x","8","6","_","6","4">>)
IdentPaths ==
    { I_GAME,
      I_JAVA_EXE,
      I_JAVA_UPPER,
      I_PYTHON,
      I_GAMELAUNCHER,
      I_MYJAVA,
      I_START,
      I_X86_64 }

(***************************************************************************)
(* The store file and the directories of the command line.                 *)
(***************************************************************************)
\* the columns of the row main() inserts
VALUES_COLUMNS ==
    { "id", "name", "slug", "installer_slug", "parent_slug", "platform",
      "runner", "executable", "directory", "updated", "lastplayed",
      "installed", "installed_at", "year", "configpath", "has_custom_banner",
      "has_custom_icon", "playtime", "hidden", "service", "service_id" }

\* what can lie at args.lutris_database: no file, a database without a
\* games table, a games table with every column of VALUES_COLUMNS, and games
\* tables that lack one of them
DB_LUTRIS == [file |-> TRUE, table |-> TRUE, columns |-> VALUES_COLUMNS]
DB_ABSENT == [file |-> FALSE, table |-> FALSE, columns |-> {}]
DB_NO_TABLE == [file |-> TRUE, table |-> FALSE, columns |-> {}]
DB_NO_ID == [DB_LUTRIS EXCEPT !.columns = VALUES_COLUMNS \ {"id"}]
DB_NO_SLUG == [DB_LUTRIS EXCEPT !.columns = VALUES_COLUMNS \ {"slug"}]
DB_NO_SERVICE_ID == [DB_LUTRIS EXCEPT !.columns = VALUES_COLUMNS \ {"service_id"}]
DatabaseChoices ==
    {DB_LUTRIS, DB_ABSENT, DB_NO_TABLE, DB_NO_ID, DB_NO_SLUG, DB_NO_SERVICE_ID}

\* the arguments argparse converts with type=directory
DIRECTORY_ARGS == {"directory", "lutris_yml_dir", "lutris_game_dir"}

\* every argument of type=directory passes os.path.isdir()
IsDir(gone) == gone = {}

\* os.path.isfile(args.lutris_database)
IsFile(db) == db.file

\* "select max(id) from games" raises sqlite3.OperationalError
SelectMaxRaises(db) == ~(db.table /\ "id" \in db.columns)

\* "SELECT count(*) FROM games WHERE slug = ?" raises
SelectSlugRaises(db) == ~(db.table /\ "slug" \in db.columns)

\* "INSERT INTO games (...)" raises
InsertRaises(db) == ~(db.table /\ VALUES_COLUMNS \subseteq db.columns)

\* the exit status of a run that ended at pc: 0 when main() returned, 2 for
\* the error of argparse, 1 for sys.exit(1) and for an uncaught exception
ExitStatus(at) ==
    CASE at = "done" -> 0
      [] at = "usage" -> 2
      [] at \in {"exit", "aborted", "traceback"} -> 1

(***************************************************************************)
(* The catalogs a run can start from: rows of the games table with their   *)
(* documents, as earlier runs or Lutris itself left them.                  *)
(*   own      a row and its document as main() writes them for the path    *)
(*   nodoc    such a row whose document is gone                            *)
(*   foreign  a row under another slug (the name alone, as Lutris makes    *)
(*            it) whose document names the path                            *)
(***************************************************************************)
Entries ==
    { [kind |-> "own", path |-> F_FOO_GAME],
      [kind |-> "nodoc", path |-> F_FOO_GAME],
      [kind |-> "foreign", path |-> F_FOO_GAME],
      [kind |-> "own", path |-> F_BAR_GAME] }

EntrySlug(e, a) ==
    IF e.kind = "foreign" THEN Slugify(GameName(e.path, a)) ELSE ConfigFile(e.path, a)

EntryRow(e, a, id) ==
    [Values(e.path, a, id) EXCEPT !.slug = EntrySlug(e, a), !.configpath = EntrySlug(e, a)]

\* the sets of entries whose rows have distinct slugs
EntrySets(a) ==
    {E \in SUBSET Entries :
        /\ Cardinality(E) <= MaxRows
        /\ \A e1, e2 \in E : e1 # e2 => EntrySlug(e1, a) # EntrySlug(e2, a)}

EntryIds(E) == CHOOSE f \in [E -> 1..Cardinality(E)] : \A e1, e2 \in E : e1 # e2 => f[e1] # f[e2]

CatalogRows(E, a) == {EntryRow(e, a, EntryIds(E)[e]) : e \in E}

CatalogYmls(E, a) ==
    LET withDoc == {e \in E : e.kind # "nodoc"}
        names == {YmlName(EntrySlug(e, a)) : e \in withDoc}
    IN  [n \in names |->
            Config((CHOOSE e \in withDoc : YmlName(EntrySlug(e, a)) = n).path, a)]

(***************************************************************************)
(* The state.                                                              *)
(***************************************************************************)
VARIABLES
    tree,        \* the regular files under the scan root
    unreadable,  \* the directories os.scandir() fails on
    args,        \* the command line but for --no-write
    lutris_database, \* what lies at args.lutris_database
    missing,     \* the directories of the command line that do not exist
    no_write,    \* args.no_write of the current run
    games,       \* the committed rows of the games table
    pending,     \* the rows of the connection's open transaction
    ymls,        \* lutris_yml_dir: document file name -> document
    pc,          \* where the run is
    game_id,     \* main()'s game_id
    files,       \* what scan_for_supported_files() returned
    todo,        \* the files the for loop has not reached yet
    game_file,   \* the loop variable
    run,         \* "first", or "second" when the program was run again
    games0,      \* the games table when the current run began
    ymls0,       \* lutris_yml_dir when the current run began
    inserted,    \* the files and rows this run committed, in order
    wrote,       \* the document file names this run wrote
    printed,     \* what this run printed in place of writing
    first,       \* what the first run did, once the program is run again
    loadq,       \* catalog loader: the rows not validated yet
    removed,     \* catalog loader: the slugs of the rows found stale
    parked,      \* the variables of a second run of main() while the first has the processor
    overlapped,  \* a run began while the other was between its first step and its end
    ident        \* a FileIdentifier: its path, its type descriptor, its verdict

vars ==
    << tree, unreadable, args, lutris_database, missing, no_write, games, pending, ymls, pc, game_id, files,
       todo, game_file, run, games0, ymls0, inserted, wrote, printed, first,
       loadq, removed, parked, overlapped, ident >>

input == << tree, unreadable, args, lutris_database, missing >>
store == << games, pending, ymls >>
history == << games0, ymls0, first >>
loader == << loadq, removed >>
aside == << parked, overlapped, ident >>

\* the variables of a run of main() that has not begun
NotBegun ==
    [pc |-> "start", game_id |-> 0, files |-> {}, todo |-> {}, game_file |-> <<>>,
     pending |-> {}, inserted |-> <<>>, wrote |-> {}]

\* a run is between its first step and its end
Running(at) == at \in {"scan", "loop", "print", "select", "write", "insert", "commit"}

\* no FileIdentifier was constructed
NoIdent ==
    [path |-> <<>>, mime |-> <<>>, made |-> FALSE, platform |-> NONE, runner |-> NONE,
     scanned |-> FALSE, skipped |-> FALSE, found |-> FALSE]

NoFile == <<>>

Range(q) == {q[i] : i \in 1..Len(q)}

\* the slug and id of each row of a set of printed or inserted games
Reported(xs) == {[slug |-> x.values.slug, id |-> x.values.id] : x \in xs}
NoRun == [no_write |-> FALSE, games0 |-> {}, reported |-> {}]

\* the state main() starts in
InitMain ==
    /\ tree \in {t \in SUBSET FileUniverse : Cardinality(t) <= MaxFiles}
    /\ unreadable \in {u \in SUBSET AllDirs : Cardinality(u) <= MaxUnreadable}
    /\ args \in ArgChoices
    /\ lutris_database \in DatabaseChoices
    /\ missing \in {g \in SUBSET DIRECTORY_ARGS : Cardinality(g) <= 1}
    /\ "directory" \in missing => tree = {}
    /\ (lutris_database # DB_LUTRIS \/ missing # {}) => unreadable = {}
    /\ no_write \in BOOLEAN
    /\ \E E \in EntrySets(args) :
          /\ (lutris_database # DB_LUTRIS \/ missing # {}) => E = {}
          /\ games = CatalogRows(E, args)
          /\ ymls = CatalogYmls(E, args)
    /\ pending = {}
    /\ pc = "start"
    /\ game_id = 0
    /\ files = {}
    /\ todo = {}
    /\ game_file = NoFile
    /\ run = "first"
    /\ games0 = games
    /\ ymls0 = ymls
    /\ inserted = <<>>
    /\ wrote = {}
    /\ printed = {}
    /\ first = NoRun
    /\ loadq = {}
    /\ removed = {}
    /\ parked = NotBegun
    /\ overlapped = FALSE

Init == InitMain /\ ident = NoIdent

(***************************************************************************)
(* main(), one action per step of it.                                      *)
(***************************************************************************)
\* parser.parse_args(), which ends the run when an argument of
\* type=directory is not a directory; the test of the store file; select
\* max(id) from games, once
Start ==
    /\ pc = "start"
    /\ IF ~IsDir(missing)
       THEN pc' = "usage" /\ UNCHANGED game_id
       ELSE IF ~IsFile(lutris_database) \/ SelectMaxRaises(lutris_database)
       THEN pc' = "exit" /\ UNCHANGED game_id
       ELSE /\ game_id' = FirstGameId(games)
            /\ pc' = "scan"
    /\ overlapped' = (overlapped \/ (pc' = "scan" /\ Running(parked.pc)))
    /\ UNCHANGED << input, parked, ident, no_write, store, files, todo, game_file, run, history, loader,
                    inserted, wrote, printed >>

\* files = scan_for_supported_files(args.directory, args.file_types); an
\* error of os.scandir() ends the run with a traceback
ScanThen(next) ==
    /\ pc = "scan"
    /\ LET r == ScanForSupportedFiles(tree, unreadable, ROOT, args.file_types)
       IN  IF r.raised
           THEN /\ pc' = "aborted"
                /\ UNCHANGED << files, todo >>
           ELSE /\ pc' = next
                /\ files' = r.files
                /\ todo' = r.files
    /\ UNCHANGED << input, aside, no_write, store, game_id, game_file, run, history,
                    inserted, wrote, printed >>

Scan == ScanThen("loop") /\ UNCHANGED loader

\* for game_file in files: the set is iterated in no particular order; a
\* Windows game whose name is in bad is passed over by continue, which also
\* passes over game_id += 1
LoopNext ==
    /\ pc = "loop"
    /\ \E f \in todo :
          /\ game_file' = f
          /\ todo' = todo \ {f}
          /\ pc' = IF IsBad(f, args) THEN "loop"
                   ELSE IF OnlyPrints(no_write) THEN "print" ELSE "select"
    /\ UNCHANGED << input, aside, no_write, store, game_id, files, run, history, loader,
                    inserted, wrote, printed >>

\* the loop is over and main() returns
LoopEnd ==
    /\ pc = "loop"
    /\ todo = {}
    /\ pc' = "done"
    /\ UNCHANGED << input, aside, no_write, store, game_id, files, todo, game_file, run,
                    history, loader, inserted, wrote, printed >>

\* if args.no_write: the row and the document are printed
PrintOnly ==
    /\ pc = "print"
    /\ printed' = printed \cup
          {[file |-> game_file, values |-> Values(game_file, args, game_id),
            config |-> Config(game_file, args)]}
    /\ game_id' = NextGameId(game_id)
    /\ pc' = "loop"
    /\ UNCHANGED << input, aside, no_write, store, files, todo, game_file, run, history, loader,
                    inserted, wrote >>

\* SELECT count(*) FROM games WHERE slug = ?; no handler catches the error
\* the query raises
Select ==
    /\ pc = "select"
    /\ pc' = IF SelectSlugRaises(lutris_database) THEN "traceback"
             ELSE IF Have(games \cup pending, ConfigFile(game_file, args)) = 0
             THEN "write" ELSE "commit"
    /\ UNCHANGED << input, aside, no_write, store, game_id, files, todo, game_file, run,
                    history, loader, inserted, wrote, printed >>

\* with open(config_file_path, 'w') as f: yaml.dump(config, f)
Write ==
    /\ pc = "write"
    /\ ymls' = WriteYml(ymls, YmlName(ConfigFile(game_file, args)), Config(game_file, args))
    /\ wrote' = wrote \cup {YmlName(ConfigFile(game_file, args))}
    /\ pc' = "insert"
    /\ UNCHANGED << input, aside, no_write, games, pending, game_id, files, todo, game_file,
                    run, history, loader, inserted, printed >>

\* cur.execute("INSERT INTO games ..."), not yet committed; no handler
\* catches the error the statement raises.  SQLite lets one connection
\* write at a time: the statement waits while another connection's
\* transaction is open
Insert ==
    /\ pc = "insert"
    /\ parked.pending = {}
    /\ IF InsertRaises(lutris_database)
       THEN pc' = "traceback" /\ UNCHANGED pending
       ELSE /\ pending' = pending \cup {Values(game_file, args, game_id)}
            /\ pc' = "commit"
    /\ UNCHANGED << input, aside, no_write, games, ymls, game_id, files, todo, game_file,
                    run, history, loader, inserted, wrote, printed >>

\* conn.commit() and game_id += 1
Commit ==
    /\ pc = "commit"
    /\ games' = games \cup pending
    /\ pending' = {}
    /\ inserted' = IF pending = {} THEN inserted
                   ELSE Append(inserted,
                          [file |-> game_file,
                           values |-> CHOOSE r \in pending : TRUE])
    /\ game_id' = NextGameId(game_id)
    /\ pc' = "loop"
    /\ UNCHANGED << input, aside, no_write, ymls, files, todo, game_file, run, history, loader,
                    wrote, printed >>

\* the process dies between two steps of a run that writes: the open
\* transaction is rolled back, what was written to disk stays
Crash ==
    /\ pc \in {"select", "write", "insert", "commit"}
    /\ pending' = {}
    /\ pc' = "crashed"
    /\ UNCHANGED << input, aside, no_write, games, ymls, game_id, files, todo, game_file,
                    run, history, loader, inserted, wrote, printed >>

\* the program is run again on the same tree with the same command line
\* but for --no-write
Restart ==
    /\ pc = "done"
    /\ run = "first"
    /\ run' = "second"
    /\ no_write' \in BOOLEAN
    /\ first' = [no_write |-> no_write, games0 |-> games0,
                  reported |-> Reported(IF no_write THEN printed ELSE Range(inserted))]
    /\ games0' = games
    /\ ymls0' = ymls
    /\ pc' = "start"
    /\ game_id' = 0
    /\ files' = {}
    /\ todo' = {}
    /\ game_file' = NoFile
    /\ inserted' = <<>>
    /\ wrote' = {}
    /\ printed' = {}
    /\ loadq' = {}
    /\ removed' = {}
    /\ UNCHANGED << input, aside, store >>

Next ==
    \/ Start
    \/ Scan
    \/ LoopNext
    \/ LoopEnd
    \/ PrintOnly
    \/ Select
    \/ Write
    \/ Insert
    \/ Commit
    \/ Crash
    \/ Restart

Spec == Init /\ [][Next]_vars

(***************************************************************************)
(* go(), the run __main__.py starts: the scan, then the catalog loader,    *)
(* then the commit loop.  The loader is not in lutris_bulk_adder.py; it is *)
(* modelled from section 4.4 of the specification.                         *)
(***************************************************************************)
\* the binary a document names: game.exe, or game.main_file
BinaryPath(doc) ==
    IF "exe" \in DOMAIN doc.game THEN doc.game.exe ELSE doc.game.main_file

\* a row is stale when its document exists and the binary it names does not
IsStale(r, docs, t) ==
    /\ YmlName(r.slug) \in DOMAIN docs
    /\ BinaryPath(docs[YmlName(r.slug)]) \notin t

\* mutant: the document is left in place
RemoveYmlKept(docs, name) == docs

\* the documents without the one of a slug
RemoveYml(docs, name) == [n \in (DOMAIN docs) \ {name} |-> docs[n]]

\* the scan hands over to the loader, which starts from all stored rows
GoScan ==
    /\ ScanThen("load")
    /\ loadq' = games
    /\ removed' = {}

\* one row is validated: without a document it is logged and kept; with a
\* document whose binary exists it is kept; with a document whose binary
\* is missing it is reported, and unless the run is a dry run its document
\* and its row are deleted
LoadEntry ==
    /\ pc = "load"
    /\ \E r \in loadq :
          /\ loadq' = loadq \ {r}
          /\ IF IsStale(r, ymls, tree)
             THEN /\ removed' = removed \cup {r.slug}
                  /\ IF no_write
                     THEN UNCHANGED << games, ymls >>
                     ELSE /\ ymls' = RemoveYml(ymls, YmlName(r.slug))
                          /\ games' = games \ {r}
             ELSE UNCHANGED << removed, games, ymls >>
    /\ UNCHANGED << input, aside, no_write, pending, pc, game_id, files, todo, game_file,
                    run, history, inserted, wrote, printed >>

\* every row is validated; the commit loop follows
LoadEnd ==
    /\ pc = "load"
    /\ loadq = {}
    /\ pc' = "loop"
    /\ UNCHANGED << input, aside, no_write, store, game_id, files, todo, game_file, run,
                    history, loader, inserted, wrote, printed >>

NextGo ==
    \/ Start
    \/ GoScan
    \/ LoadEntry
    \/ LoadEnd
    \/ LoopNext
    \/ LoopEnd
    \/ PrintOnly
    \/ Select
    \/ Write
    \/ Insert
    \/ Commit
    \/ Crash
    \/ Restart

SpecGo == Init /\ [][NextGo]_vars

(***************************************************************************)
(* The claims.                                                             *)
(***************************************************************************)
Ids(rows) == {r.id : r \in rows}
Slugs(rows) == {r.slug : r \in rows}

\* the scanned files the loop does not pass over
Candidates == {f \in files : ~IsBad(f, args)}

\* C1: after a run that writes has completed, a second run that writes, on
\* the same tree and the catalog the first left, inserts no row, writes no
\* document and deletes nothing: the table and the documents stay as they
\* were when it began.
C1_SecondRunChangesNothing ==
    (run = "second" /\ ~first.no_write /\ ~no_write) =>
        /\ inserted = <<>>
        /\ wrote = {}
        /\ pending = {}
        /\ games = games0
        /\ ymls = ymls0

\* C1 witness: the first run inserted rows, and the second run, which
\* scanned the same files, has ended.
C1_Witness ==
    /\ run = "second" /\ ~first.no_write /\ ~no_write
    /\ pc = "done"
    /\ first.reported # {}
    /\ Candidates # {}

\* C2: in every state, a crash included, each row this run put into the
\* table, committed or not, has its document <slug>.yml.
C2_RowHasDocument ==
    \A r \in (games \cup pending) \ games0 : YmlName(r.slug) \in DOMAIN ymls

\* C2 witness: the run crashed after writing a document whose row is not in
\* the table, and it had committed a row before.
C2_Witness ==
    /\ pc = "crashed"
    /\ \E n \in wrote : \A r \in games : YmlName(r.slug) # n
    /\ inserted # <<>>

\* C3: each game a run commits is exactly one row of the table; its id is
\* greater than every id the table held when the run began and greater than
\* the ids of the rows the run committed before it.
C3_IdsIncrease ==
    /\ \A i \in 1..Len(inserted) :
          /\ \A id \in Ids(games0) : inserted[i].values.id > id
          /\ \A j \in 1..(i - 1) : inserted[j].values.id < inserted[i].values.id
          /\ Cardinality({r \in games : r.slug = inserted[i].values.slug}) = 1
          /\ inserted[i].values \in games
    /\ \A r \in pending : \A id \in Ids(games) : r.id > id

\* C3 witness: a run has committed two rows into a table that held a row.
C3_Witness ==
    /\ Len(inserted) >= 2
    /\ games0 # {}

\* C4: a run with --no-write leaves the table and the documents as they
\* were when it began.
C4_DryRunChangesNothing ==
    no_write =>
        /\ games = games0
        /\ ymls = ymls0
        /\ pending = {}
        /\ inserted = <<>>
        /\ wrote = {}

\* C4 witness: a run with --no-write has printed a game and ended.
C4_Witness ==
    /\ no_write
    /\ pc = "done"
    /\ printed # {}

\* C5: a run that writes inserts the games, with their slugs and ids, that
\* a run with --no-write on the same tree and the same catalog printed.
C5_DryRunReportsWhatIsInserted ==
    (run = "second" /\ first.no_write /\ ~no_write /\ pc = "done"
        /\ first.games0 = games0) =>
        Reported(Range(inserted)) = first.reported

\* C6: two different paths of the tree have different slugs and different
\* document names, also when their game names are the same (the tree and
\* the command line never change, so this is stated where a run begins);
\* the slug of an inserted row is the normalized name, a dash and the
\* digest of the path, and no two rows a run inserts share a slug.
C6_SlugsDiffer ==
    /\ pc = "start" =>
          \A p, q \in tree :
              p # q => /\ ConfigFile(p, args) # ConfigFile(q, args)
                       /\ YmlName(ConfigFile(p, args)) # YmlName(ConfigFile(q, args))
    /\ \A i \in 1..Len(inserted) :
          /\ inserted[i].values.slug =
                 Slugify(inserted[i].values.name) \o <<"-">> \o Md5Hex(inserted[i].file)
          /\ \A j \in 1..Len(inserted) :
                 i # j => inserted[i].values.slug # inserted[j].values.slug

\* C6 witness: a run has inserted two files that have the same game name.
C6_Witness ==
    \E i, j \in 1..Len(inserted) :
        /\ inserted[i].file # inserted[j].file
        /\ inserted[i].values.name = inserted[j].values.name

\* the files a run that writes has inserted
InsertedFiles == {x.file : x \in Range(inserted)}

\* the binaries named by the documents of the rows the run began with
ExistingPaths ==
    {BinaryPath(ymls0[YmlName(r.slug)]) :
        r \in {x \in games0 : YmlName(x.slug) \in DOMAIN ymls0}}

\* the rows the run began with whose document named a missing binary
StaleRows == {r \in games0 : IsStale(r, ymls0, tree)}

C7_WitnessDry ==
    /\ pc = "done" /\ no_write
    /\ \E r \in StaleRows : r.slug \in removed /\ r \in games

C9_PlaceholderAnyCase ==
    \A x \in Range(inserted) \cup printed :
        x.values.name =
            IF /\ args.platform = "Windows"
               /\ Lower(OwnName(x.file, args)) = Lower(GAME_PLACEHOLDER)
            THEN AltName(x.file)
            ELSE OwnName(x.file, args)

\* the directories a file lies below
Ancestors(f) == {d \in AllDirs : StartsWith(f, d \o <<"/">>)}

\* the files the scan returns when unreadable directories are skipped
ReadableWanted ==
    {f \in tree \cap Wanted[args.file_types] : Ancestors(f) \cap unreadable = {}}

\* C10: a subdirectory that cannot be read is skipped: once the scan of a
\* readable root is over, the run holds the wanted files of the readable
\* part of the tree.
C10_ScanSkipsUnreadable ==
    (pc \notin {"start", "scan"} /\ ROOT \notin unreadable) =>
        files = ReadableWanted

(***************************************************************************)
(* Two runs of main() on the same store, documents and tree, with no       *)
(* --no-write.  The variables of main() belong to the run that has the     *)
(* processor; parked holds those of the other run.  A run's connection has *)
(* its own open transaction, so pending is a variable of the run.  The     *)
(* games table is a set of rows under no key constraint: its schema is     *)
(* Lutris's and not part of this program.                                  *)
(***************************************************************************)
\* the variables of the run that has the processor
Mine ==
    [pc |-> pc, game_id |-> game_id, files |-> files, todo |-> todo,
     game_file |-> game_file, pending |-> pending, inserted |-> inserted,
     wrote |-> wrote]

\* the operating system gives the processor to the other run, between two
\* steps of main()
Switch ==
    /\ parked.pc = "start" \/ Running(parked.pc)
    /\ parked' = Mine
    /\ pc' = parked.pc
    /\ game_id' = parked.game_id
    /\ files' = parked.files
    /\ todo' = parked.todo
    /\ game_file' = parked.game_file
    /\ pending' = parked.pending
    /\ inserted' = parked.inserted
    /\ wrote' = parked.wrote
    /\ UNCHANGED << input, overlapped, ident, no_write, games, ymls, run, history,
                    loader, printed >>

\* the files of the trees two runs are started on
TwoRunFiles == {F_FOO_GAME, F_BAR_GAME, F_FOO_ROM}

InitTwo ==
    /\ Init
    /\ tree \subseteq TwoRunFiles
    /\ ~no_write
    /\ lutris_database = DB_LUTRIS
    /\ missing = {}
    /\ unreadable = {}

NextTwo ==
    \/ Start
    \/ Scan
    \/ LoopNext
    \/ LoopEnd
    \/ Select
    \/ Write
    \/ Insert
    \/ Commit
    \/ Switch

SpecTwo == InitTwo /\ [][NextTwo]_vars

(***************************************************************************)
(* The classifier and the scanner's filter, applied to one file.           *)
(***************************************************************************)
\* fileid = FileIdentifier(entity_path)
Identify ==
    /\ ~ident.made
    /\ LET r == FileIdentifier(ident.path, ident.mime)
       IN  ident' = [ident EXCEPT !.made = TRUE, !.platform = r.platform,
                                  !.runner = r.runner]
    /\ UNCHANGED << input, parked, overlapped, no_write, store, pc, game_id, files,
                    todo, game_file, run, history, loader, inserted, wrote, printed >>

\* the body of the scanner's loop for one regular file: the filter on the
\* name, then the test of the extension against DEFAULT_ROM_FILE_EXTS
ScanEntity ==
    /\ ~ident.scanned
    /\ ident' = [ident EXCEPT
                   !.scanned = TRUE,
                   !.skipped = IsIgnoredName(Basename(ident.path)),
                   !.found = PassesFilter(Basename(ident.path), DEFAULT_ROM_FILE_EXTS)]
    /\ UNCHANGED << input, parked, overlapped, no_write, store, pc, game_id, files,
                    todo, game_file, run, history, loader, inserted, wrote, printed >>

InitClassify ==
    /\ InitMain
    /\ tree = {}
    /\ unreadable = {}
    /\ args.platform = "Windows"
    /\ lutris_database = DB_LUTRIS
    /\ missing = {}
    /\ ~no_write
    /\ games = {}
    /\ ident \in {[NoIdent EXCEPT !.path = p, !.mime = m] :
                    p \in IdentPaths, m \in Descriptors}

NextClassify ==
    \/ Identify
    \/ ScanEntity

SpecClassify == InitClassify /\ [][NextClassify]_vars

(***************************************************************************)
(* Fatal conditions.                                                       *)
(***************************************************************************)
\* the games table has every column the run reads and writes
UsableTable(db) == db.table /\ VALUES_COLUMNS \subseteq db.columns

\* the store is not a file, or has no usable games table, or the scan
\* directory or the directory of the documents does not exist
Fatal ==
    \/ ~lutris_database.file
    \/ ~UsableTable(lutris_database)
    \/ missing \cap {"directory", "lutris_yml_dir"} # {}

\* the fatal conditions main() tests for before it scans
TestedFatal ==
    \/ missing # {}
    \/ ~lutris_database.file
    \/ ~(lutris_database.table /\ "id" \in lutris_database.columns)

AbortedAtOnce ==
    /\ pc \in {"start", "usage", "exit"}
    /\ pc # "start" => ExitStatus(pc) # 0
    /\ games = games0
    /\ ymls = ymls0
    /\ pending = {}

\* C11: under a fatal condition (the store is not an existing file, the
\* store has no usable games table, the scan directory or the directory of
\* the documents does not exist) the first step of the run ends it with a
\* non-zero exit status, and no row and no document is created, changed or
\* deleted.
C11_FatalAbortsBeforeMutation == Fatal => AbortedAtOnce

\* the part of C11 that holds: the conditions main() tests for end the run
\* at once
C11_TestedFatalAborts == TestedFatal => AbortedAtOnce

\* a run on a games table that lacks a column wrote a document and then
\* ended in the error of the INSERT
C11_DocumentBeforeError ==
    /\ Fatal
    /\ pc = "traceback"
    /\ ymls # ymls0

\* a run on a games table that lacks a column returned with status 0
C11_MalformedExitsZero ==
    /\ Fatal
    /\ pc = "done"
    /\ ExitStatus(pc) = 0
    /\ printed # {}

(***************************************************************************)
(* Two runs at once.                                                       *)
(***************************************************************************)
\* the candidate a run has in hand with the id its row was given (line 532)
InHand(l) ==
    IF l.pc \in {"select", "write", "insert", "commit"}
    THEN {[file |-> l.game_file, id |-> l.game_id]}
    ELSE {}

\* the ids a run gave to candidates: the rows it inserted and the one in hand
Allocated(l) ==
    InHand(l) \cup {[file |-> x.file, id |-> x.values.id] : x \in Range(l.inserted)}

\* the candidates for which a run found no row of their slug and went on to
\* insert
Attempted(l) ==
    {x.file : x \in Range(l.inserted)} \cup
    (IF l.pc \in {"write", "insert"} \/ (l.pc = "commit" /\ l.pending # {})
     THEN {l.game_file} ELSE {})

\* both runs gave the same id to different candidates
SameIdRace ==
    \E x \in Allocated(Mine), y \in Allocated(parked) : x.id = y.id /\ x.file # y.file

\* both runs passed the slug check for the same candidate
DuplicateRace == Attempted(Mine) \cap Attempted(parked) # {}

\* C12: of two live runs on the same catalog, both give the same id to
\* different candidates, or both pass the slug check for the same candidate
\* and go on to insert it, only if the runs overlapped; when one run begins
\* after the other ended neither happens.  (That both states are reached
\* when the runs interleave is C12_Witness.)
C12_RaceOnlyWhenOverlapped == (SameIdRace \/ DuplicateRace) => overlapped

\* two interleaved runs gave one id to two candidates and both passed the
\* slug check for one candidate
C12_Witness ==
    /\ overlapped
    /\ SameIdRace
    /\ DuplicateRace
    /\ \E i \in DOMAIN inserted, j \in DOMAIN parked.inserted :
          inserted[i].file = parked.inserted[j].file

\* one run after the other: both ended, the second began after the first
\* ended, and the first inserted
C12_WitnessSerial ==
    /\ ~overlapped
    /\ pc = "done"
    /\ parked.pc = "done"
    /\ Len(inserted) + Len(parked.inserted) = MaxFiles

(***************************************************************************)
(* The classifier.                                                         *)
(***************************************************************************)
Verdict == [platform |-> ident.platform, runner |-> ident.runner]
NoCandidate == [platform |-> NONE, runner |-> NONE]

\* C13: the classifier's rules are tried in a fixed order and the first
\* that matches decides: (1) the descriptor starts with an ignored prefix:
\* no candidate; (2) the file's name matches an ignored binary stem, with
\* or without .exe: no candidate; (3) the descriptor starts with a native
\* Linux prefix: Linux, linux; (4) the descriptor starts with a Windows PE
\* prefix: Windows, wine; (5) otherwise Unknown, unknown.  A descriptor with
\* both an ignored prefix and a platform prefix yields no candidate.
C13_RuleOrder ==
    ident.made =>
        LET r1 == IsIgnoredType(ident.mime)
            r2 == IsIgnoredBinary(ident.path) \/ IsIgnoredBinaryExe(ident.path)
            r3 == IsLinuxExecutable(ident.mime)
            r4 == IsWindowsExecutable(ident.mime)
        IN  /\ r1 => Verdict = NoCandidate
            /\ (~r1 /\ r2) => Verdict = NoCandidate
            /\ (~r1 /\ ~r2 /\ r3) => Verdict = [platform |-> "Linux", runner |-> "linux"]
            /\ (~r1 /\ ~r2 /\ ~r3 /\ r4) =>
                  Verdict = [platform |-> "Windows", runner |-> "wine"]
            /\ (~r1 /\ ~r2 /\ ~r3 /\ ~r4) =>
                  Verdict = [platform |-> "Unknown", runner |-> "unknown"]

\* a PE DLL under a name that is no ignored stem was classified: no candidate
C13_Witness ==
    /\ ident.made
    /\ ident.mime = MIME_PE32_DLL
    /\ IsIgnoredType(ident.mime)
    /\ IsWindowsExecutable(ident.mime)
    /\ ~IsIgnoredBinary(ident.path)
    /\ ~IsIgnoredBinaryExe(ident.path)
    /\ Verdict = NoCandidate

\* the name, in lower case and without a trailing ".exe", is an ignored stem
ExactStem(name) ==
    LET n == Lower(name)
        stem == IF EndsWith(n, DOT_EXE) THEN SubSeq(n, 1, Len(n) - Len(DOT_EXE)) ELSE n
    IN  stem \in IGNORE_BINARIES

\* C14: the ignored-stem rule excludes a file exactly when its name, in
\* lower case and without a trailing .exe, is an ignored stem: the
\* classifier (on a descriptor that is not ignored) yields no candidate if
\* and only if it is, the scanner's filter skips no file for which it is
\* not (a name that is longer than an ignored stem and ends with it is not
\* excluded), and a file for which it is is not returned by the scan.
C14_IgnoredStemExact ==
    (ident.made /\ ident.scanned) =>
        LET name == Basename(ident.path)
        IN  /\ ~IsIgnoredType(ident.mime) => (Verdict = NoCandidate <=> ExactStem(name))
            /\ ident.skipped => ExactStem(name)
            /\ ExactStem(name) => ~ident.found

\* GameLauncher.exe, a Windows binary whose stem is not an ignored stem, was
\* skipped by the scanner's filter and classified as no candidate
C14_LongerNameExcluded ==
    /\ ident.made
    /\ ident.scanned
    /\ ident.path = I_GAMELAUNCHER
    /\ ident.mime = MIME_PE32_GUI
    /\ ~ExactStem(Basename(ident.path))
    /\ ident.skipped
    /\ Verdict = NoCandidate

(***************************************************************************)
(* The extensions of a Windows run.                                        *)
(***************************************************************************)
\* the file's last extension, in lower case, is exe
IsExe(f) == Lower(LastExtPart(Basename(f))) = DOT_EXE_TYPE

\* C15: in a run for the platform Windows the scan returns only exe files,
\* and no file of another extension is written as a document with an exe
\* and working_dir pair or inserted as a Windows row.
C15_WindowsOnlyExe ==
    args.platform = "Windows" =>
        /\ \A f \in files : IsExe(f)
        /\ \A n \in wrote : "exe" \in DOMAIN ymls[n].game => IsExe(ymls[n].game.exe)
        /\ \A i \in DOMAIN inserted :
              inserted[i].values.platform = "Windows" => IsExe(inserted[i].file)

\* a Windows run returned a .nes file from the scan, wrote its document with
\* an exe and working_dir pair and inserted its Windows row
C15_RomInsertedAsWindows ==
    /\ args.platform = "Windows"
    /\ FileTypes(args) = {DOT_EXE_TYPE}
    /\ F_FOO_ROM \in files
    /\ \E i \in DOMAIN inserted :
          /\ inserted[i].file = F_FOO_ROM
          /\ inserted[i].values.platform = "Windows"
          /\ ymls[YmlName(inserted[i].values.slug)].game.exe = F_FOO_ROM
====
